---------------------------- MODULE Spec2Model ----------------------------
(***************************************************************************)
(* Model of mdbook-buildtime-annotations: one invocation of the binary     *)
(* (src/main.rs), the preprocessing pipeline (src/lib.rs) and the footer   *)
(* applicator.  Text is modelled as a sequence of one-character strings,   *)
(* Option<T> as a record [some, ...], Result<T> as a record with a field   *)
(* st that is "unset" before the statement ran and "Ok" or "Err" after.    *)
(***************************************************************************)
EXTENDS Integers, Sequences, FiniteSets, TLC

VARIABLES
    pc,          \* position in main / handle_preprocessing / Processor::run
    cmd,         \* app.cmd: "Supports" or "None" (the primary mode)
    parsed,      \* result of parse_input(stdin): "unset", "Ok", "Err"
    book_in,     \* the book as parse_input returned it
    book,        \* `mut book` of Processor::run
    cfg,         \* result of Config::try_from
    cargo_file,  \* result of read_to_string(workspace_dir/Cargo.toml)
    cargo_toml,  \* result of toml::from_str
    repo,        \* what determine_git_rev found at git_dir
    commit,      \* Option<String> returned by determine_git_rev
    footer,      \* `let mut footer`
    result,      \* result of Processor::run: "unset", "Ok", "Err"
    stdout,      \* "empty", "partial" or "book" (the whole document)
    exit_code,   \* -1 while running, then the process status
    log,         \* diagnostics emitted with error! / warn!
    trace,       \* the statements of Processor::run executed so far
    applied      \* number of passes of the applicator over `book`

vars == <<pc, cmd, parsed, book_in, book, cfg, cargo_file, cargo_toml, repo,
          commit, footer, result, stdout, exit_code, log, trace, applied>>

---------------------------------------------------------------------------
(* Bounds *)

\* largest explicit commit_characters value tried (besides the default)
MaxCommitChars == 3
\* length of a full commit identifier (40 for SHA-1)
IdLen == 2
\* nesting depth of the chapters of the input books
MaxDepth == 1
\* number of applicator passes in SpecApply
MaxApply == 2

(* Program constants *)

DefaultCommitCharacters == 10

---------------------------------------------------------------------------
(* Text *)

Str_footer_open  == <<"<", "f", "o", "o", "t", "e", "r", ">">>
Str_footer_close == <<"<", "/", "f", "o", "o", "t", "e", "r", ">">>
Str_space == <<" ">>
Str_at    == <<"@">>
Str_v     == <<"v">>

\* Cargo.toml fixtures: the package table and the workspace table
PackageNames    == {<<>>, <<"f", "o", "o">>}
PackageVersions == {<<"1", ".", "0">>}
WorkspaceNames    == {<<"b", "a", "r">>}
WorkspaceVersions == {<<"2", ".", "0">>}

\* Identifiers of IdLen hexadecimal digits
HexDigits == <<"a", "1", "c", "9">>
CommitIds == {[i \in 1..IdLen |-> HexDigits[((i - 1) % 4) + 1]]}

\* Directories: the default, and one a configuration may name instead
DefaultDir == "../"
OtherDir == "."

---------------------------------------------------------------------------
(* Option *)

None == [some |-> FALSE, val |-> <<>>]
Some(v) == [some |-> TRUE, val |-> v]

---------------------------------------------------------------------------
(* CargoToml *)

NoTable == [some |-> FALSE, name |-> <<>>, version |-> <<>>]
Table(n, v) == [some |-> TRUE, name |-> n, version |-> v]

PackageTables == {NoTable} \cup {Table(n, v) : n \in PackageNames, v \in PackageVersions}
WorkspaceTables == {NoTable} \cup {Table(n, v) : n \in WorkspaceNames, v \in WorkspaceVersions}

\* The contents a manifest file may have: text toml::from_str rejects (not
\* TOML, or a table without a string name/version), or the two optional tables.
InvalidText == [valid |-> FALSE, package |-> NoTable, workspace |-> NoTable]
ManifestTexts ==
    {InvalidText}
    \cup {[valid |-> TRUE, package |-> p, workspace |-> w] :
             p \in PackageTables, w \in WorkspaceTables}

FromStr(text) ==
    IF text.valid
    THEN [st |-> "Ok", package |-> text.package, workspace |-> text.workspace]
    ELSE [st |-> "Err", package |-> NoTable, workspace |-> NoTable]

\* Faulty variant: the workspace table is preferred
CargoToml_package_workspace_first(ct) ==
    IF ct.workspace.some THEN ct.workspace ELSE ct.package

CargoToml_package(ct) == IF ct.package.some THEN ct.package ELSE ct.workspace

CargoToml_name(ct) ==
    IF CargoToml_package(ct).some THEN Some(CargoToml_package(ct).name) ELSE None

CargoToml_version(ct) ==
    IF CargoToml_package(ct).some THEN Some(CargoToml_package(ct).version) ELSE None

---------------------------------------------------------------------------
(* Config *)

Absent == [shape |-> "absent", num |-> 0, flag |-> FALSE, dir |-> ""]
Wrong  == [shape |-> "wrong", num |-> 0, flag |-> FALSE, dir |-> ""]
Num(n)  == [shape |-> "ok", num |-> n, flag |-> FALSE, dir |-> ""]
Flag(b) == [shape |-> "ok", num |-> 0, flag |-> b, dir |-> ""]
Dir(d)  == [shape |-> "ok", num |-> 0, flag |-> FALSE, dir |-> d]

\* What ctx.config.get can answer for each of the six keys
RawConfigs ==
    [commit_characters : {Absent, Wrong} \cup {Num(n) : n \in 0..MaxCommitChars},
     workspace_dir     : {Absent, Wrong, Dir(OtherDir)},
     git_dir           : {Absent, Wrong, Dir(OtherDir)},
     package_name      : {Absent, Wrong, Flag(TRUE), Flag(FALSE)},
     package_version   : {Absent, Wrong, Flag(TRUE), Flag(FALSE)},
     git_commit        : {Absent, Wrong, Flag(TRUE), Flag(FALSE)}]

UnsetConfig ==
    [st |-> "unset", commit_characters |-> 0, workspace_dir |-> "", git_dir |-> "",
     package_name |-> FALSE, package_version |-> FALSE, git_commit |-> FALSE]

Config_try_from(raw) ==
    IF \E k \in DOMAIN raw : raw[k].shape = "wrong"
    THEN [UnsetConfig EXCEPT !.st = "Err"]
    ELSE [st |-> "Ok",
          commit_characters |->
              IF raw.commit_characters.shape = "absent"
              THEN DefaultCommitCharacters ELSE raw.commit_characters.num,
          workspace_dir |->
              IF raw.workspace_dir.shape = "absent" THEN DefaultDir ELSE raw.workspace_dir.dir,
          git_dir |->
              IF raw.git_dir.shape = "absent" THEN DefaultDir ELSE raw.git_dir.dir,
          package_name |->
              IF raw.package_name.shape = "absent" THEN TRUE ELSE raw.package_name.flag,
          package_version |->
              IF raw.package_version.shape = "absent" THEN TRUE ELSE raw.package_version.flag,
          git_commit |->
              IF raw.git_commit.shape = "absent" THEN TRUE ELSE raw.git_commit.flag]

---------------------------------------------------------------------------
(* determine_git_rev *)

\* What can be found at git_dir: a path that does not canonicalize, no
\* repository, no HEAD, a HEAD that peels to no commit, or a commit.
RepoStates ==
    {[at |-> s, id |-> <<>>] : s \in {"no_path", "no_repo", "no_head", "no_commit"}}
    \cup {[at |-> "commit", id |-> i] : i \in CommitIds}

UnsetRepo == [at |-> "unset", id |-> <<>>]

\* Faulty variant: keeps the last new_len characters instead of the first
Truncate_suffix(s, new_len) ==
    IF new_len < Len(s) THEN SubSeq(s, Len(s) - new_len + 1, Len(s)) ELSE s

\* String::truncate: no effect when new_len is not below the length
Truncate(s, new_len) == IF new_len < Len(s) THEN SubSeq(s, 1, new_len) ELSE s

determine_git_rev(r, commit_characters) ==
    IF r.at = "commit" THEN Some(Truncate(r.id, commit_characters)) ELSE None

determine_git_rev_log(r) == IF r.at = "no_repo" THEN <<"repo_open_failed">> ELSE <<>>

---------------------------------------------------------------------------
(* Book *)

Chapter(content, sub_items) ==
    [kind |-> "Chapter", content |-> content, sub_items |-> sub_items]
Separator == [kind |-> "Separator", content |-> <<>>, sub_items |-> <<>>]
PartTitle(title) == [kind |-> "PartTitle", content |-> title, sub_items |-> <<>>]

RECURSIVE Nest(_)
Nest(d) ==
    IF d = 0
    THEN <<Chapter(<<"x">>, <<>>), Separator, Chapter(<<>>, <<>>)>>
    ELSE <<Chapter(<<"y">>, Nest(d - 1)), PartTitle(<<"p">>)>>

Books == {<<>>, <<Separator>>} \cup {Nest(d) : d \in 0..MaxDepth}

\* Does string t end with string f
EndsWith(t, f) ==
    Len(f) <= Len(t) /\ SubSeq(t, Len(t) - Len(f) + 1, Len(t)) = f

\* Faulty variant: a chapter that already ends with the footer is left alone
handle_bookitem_dedup(item, f) ==
    IF item.kind = "Chapter" /\ ~EndsWith(item.content, f)
    THEN [item EXCEPT !.content = @ \o f] ELSE item

handle_bookitem(item, f) ==
    IF item.kind = "Chapter" THEN [item EXCEPT !.content = @ \o f] ELSE item

\* Faulty variant: only the top-level items are visited
for_each_mut_shallow(items, f) ==
    [i \in 1..Len(items) |-> handle_bookitem(items[i], f)]

\* Book::for_each_mut: the closure is called on every item, the sub_items
\* of a chapter included
RECURSIVE for_each_mut(_, _)
for_each_mut(items, f) ==
    [i \in 1..Len(items) |->
        handle_bookitem(
            IF items[i].kind = "Chapter"
            THEN [items[i] EXCEPT !.sub_items = for_each_mut(@, f)]
            ELSE items[i],
            f)]

---------------------------------------------------------------------------
(* Footer composition, Processor::run lines 112-146 *)

Sep(f) == IF f # <<>> THEN f \o Str_space ELSE f

footer_name(f, c, ct) ==
    IF c.package_name /\ CargoToml_name(ct).some
    THEN f \o CargoToml_name(ct).val ELSE f

\* Faulty variant: the separator is pushed whether or not the footer is empty
footer_commit_always_sep(f, c, rev) ==
    IF c.git_commit /\ rev.some
    THEN f \o Str_space \o Str_at \o rev.val ELSE f

footer_commit(f, c, rev) ==
    IF c.git_commit /\ rev.some
    THEN Sep(f) \o Str_at \o rev.val ELSE f

footer_version(f, c, ct) ==
    IF c.package_version /\ CargoToml_version(ct).some
    THEN Sep(f) \o Str_v \o CargoToml_version(ct).val ELSE f

footer_wrap(f) == Str_footer_open \o f \o Str_footer_close

---------------------------------------------------------------------------
(* Initial state *)

Init ==
    /\ pc = "main"
    /\ cmd \in {"Supports", "None"}
    /\ parsed = "unset"
    /\ book_in = <<>>
    /\ book = <<>>
    /\ cfg = UnsetConfig
    /\ cargo_file = [st |-> "unset", text |-> InvalidText]
    /\ cargo_toml = [st |-> "unset", package |-> NoTable, workspace |-> NoTable]
    /\ repo = UnsetRepo
    /\ commit = None
    /\ footer = <<>>
    /\ result = "unset"
    /\ stdout = "empty"
    /\ exit_code = -1
    /\ log = <<>>
    /\ trace = <<>>
    /\ applied = 0

---------------------------------------------------------------------------
(* src/main.rs *)

\* Preprocessor::supports_renderer is not overridden by Processor
supports_renderer(renderer) == TRUE

\* main, lines 10-17: dispatch on the subcommand; handle_supports exits
Main ==
    /\ pc = "main"
    /\ IF cmd = "Supports"
       THEN /\ \E renderer \in {"html", "epub"} :
                 exit_code' = IF supports_renderer(renderer) THEN 0 ELSE 1
            /\ pc' = "exited"
       ELSE /\ pc' = "parse_input"
            /\ UNCHANGED exit_code
    /\ UNCHANGED <<cmd, parsed, book_in, book, cfg, cargo_file, cargo_toml, repo,
                   commit, footer, result, stdout, log, trace, applied>>

\* main, lines 17-20: an Err of handle_preprocessing is logged and exits 1,
\* an Ok lets main return
MainExit ==
    /\ pc \in {"main_ok", "main_err"}
    /\ IF pc = "main_err"
       THEN exit_code' = 1 /\ log' = Append(log, "main_failed")
       ELSE exit_code' = 0 /\ UNCHANGED log
    /\ pc' = "exited"
    /\ UNCHANGED <<cmd, parsed, book_in, book, cfg, cargo_file, cargo_toml, repo,
                   commit, footer, result, stdout, trace, applied>>

---------------------------------------------------------------------------
(* handle_preprocessing *)

\* lines 173-183: parse stdin, warn on a version mismatch
ParseInput ==
    /\ pc = "parse_input"
    /\ \/ /\ parsed' = "Err"
          /\ pc' = "main_err"
          /\ UNCHANGED <<book_in, book, log>>
       \/ \E b \in Books, version_matches \in BOOLEAN :
          /\ parsed' = "Ok"
          /\ book_in' = b
          /\ book' = b
          /\ log' = IF version_matches THEN log ELSE Append(log, "version_mismatch")
          /\ pc' = "config"
    /\ UNCHANGED <<cmd, cfg, cargo_file, cargo_toml, repo, commit, footer, result,
                   stdout, exit_code, trace, applied>>

\* lines 186-188: write the processed book to stdout
Serialize ==
    /\ pc = "serialize"
    /\ \E out \in {"book", "partial", "empty"} :
          /\ stdout' = out
          /\ pc' = IF out = "book" THEN "main_ok" ELSE "main_err"
    /\ UNCHANGED <<cmd, parsed, book_in, book, cfg, cargo_file, cargo_toml, repo,
                   commit, footer, result, exit_code, log, trace, applied>>

---------------------------------------------------------------------------
(* Processor::run *)

\* Faulty variant: a wrong-shaped value is noticed only after the manifest was read
ResolveConfig_deferred ==
    /\ pc = "config"
    /\ \E raw \in RawConfigs : cfg' = Config_try_from(raw)
    /\ trace' = Append(trace, "config")
    /\ pc' = "read_manifest"
    /\ UNCHANGED <<cmd, parsed, book_in, book, cargo_file, cargo_toml, repo, commit,
                   footer, result, stdout, exit_code, log, applied>>

\* line 97
ResolveConfig ==
    /\ pc = "config"
    /\ \E raw \in RawConfigs : cfg' = Config_try_from(raw)
    /\ trace' = Append(trace, "config")
    /\ IF cfg'.st = "Err"
       THEN result' = "Err" /\ pc' = "main_err"
       ELSE UNCHANGED result /\ pc' = "read_manifest"
    /\ UNCHANGED <<cmd, parsed, book_in, book, cargo_file, cargo_toml, repo, commit,
                   footer, stdout, exit_code, log, applied>>

\* line 100
ReadManifest ==
    /\ pc = "read_manifest"
    /\ \/ cargo_file' = [st |-> "Err", text |-> InvalidText]
       \/ \E t \in ManifestTexts : cargo_file' = [st |-> "Ok", text |-> t]
    /\ trace' = Append(trace, "read_manifest")
    /\ IF cargo_file'.st = "Err"
       THEN result' = "Err" /\ pc' = "main_err"
       ELSE UNCHANGED result /\ pc' = "parse_manifest"
    /\ UNCHANGED <<cmd, parsed, book_in, book, cfg, cargo_toml, repo, commit,
                   footer, stdout, exit_code, log, applied>>

\* Faulty variant: an unparsable manifest is taken as a manifest without tables
ParseManifest_or_default ==
    /\ pc = "parse_manifest"
    /\ cargo_toml' = FromStr(cargo_file.text)
    /\ trace' = Append(trace, "parse_manifest")
    /\ pc' = "git_rev"
    /\ UNCHANGED <<cmd, parsed, book_in, book, cfg, cargo_file, repo, commit,
                   footer, result, stdout, exit_code, log, applied>>

\* line 101
ParseManifest ==
    /\ pc = "parse_manifest"
    /\ cargo_toml' = FromStr(cargo_file.text)
    /\ trace' = Append(trace, "parse_manifest")
    /\ IF cargo_toml'.st = "Err"
       THEN result' = "Err" /\ pc' = "main_err"
       ELSE UNCHANGED result /\ pc' = "git_rev"
    /\ UNCHANGED <<cmd, parsed, book_in, book, cfg, cargo_file, repo, commit,
                   footer, stdout, exit_code, log, applied>>

\* Faulty variant: a revision that cannot be resolved is an error of the run
GitRev_fatal ==
    /\ pc = "git_rev"
    /\ \E r \in RepoStates :
          /\ repo' = r
          /\ commit' = determine_git_rev(r, cfg.commit_characters)
          /\ log' = log \o determine_git_rev_log(r)
    /\ trace' = Append(trace, "git_rev")
    /\ IF commit'.some
       THEN UNCHANGED result /\ pc' = "footer_name"
       ELSE result' = "Err" /\ pc' = "main_err"
    /\ UNCHANGED <<cmd, parsed, book_in, book, cfg, cargo_file, cargo_toml,
                   footer, stdout, exit_code, applied>>

\* line 103, with determine_git_rev (lines 154-170)
GitRev ==
    /\ pc = "git_rev"
    /\ \E r \in RepoStates :
          /\ repo' = r
          /\ commit' = determine_git_rev(r, cfg.commit_characters)
          /\ log' = log \o determine_git_rev_log(r)
    /\ trace' = Append(trace, "git_rev")
    /\ pc' = "footer_name"
    /\ UNCHANGED <<cmd, parsed, book_in, book, cfg, cargo_file, cargo_toml,
                   footer, result, stdout, exit_code, applied>>

\* lines 112-120
FooterName ==
    /\ pc = "footer_name"
    /\ footer' = footer_name(<<>>, cfg, cargo_toml)
    /\ log' = IF cfg.package_name /\ ~CargoToml_name(cargo_toml).some
              THEN Append(log, "name_missing") ELSE log
    /\ trace' = Append(trace, "footer_name")
    /\ pc' = "footer_commit"
    /\ UNCHANGED <<cmd, parsed, book_in, book, cfg, cargo_file, cargo_toml, repo,
                   commit, result, stdout, exit_code, applied>>

\* lines 121-130
FooterCommit ==
    /\ pc = "footer_commit"
    /\ footer' = footer_commit(footer, cfg, commit)
    /\ log' = IF cfg.git_commit /\ ~commit.some
              THEN Append(log, "commit_missing") ELSE log
    /\ trace' = Append(trace, "footer_commit")
    /\ pc' = "footer_version"
    /\ UNCHANGED <<cmd, parsed, book_in, book, cfg, cargo_file, cargo_toml, repo,
                   commit, result, stdout, exit_code, applied>>

\* lines 131-140
FooterVersion ==
    /\ pc = "footer_version"
    /\ footer' = footer_version(footer, cfg, cargo_toml)
    /\ log' = IF cfg.package_version /\ ~CargoToml_version(cargo_toml).some
              THEN Append(log, "version_missing") ELSE log
    /\ trace' = Append(trace, "footer_version")
    /\ pc' = "footer_check"
    /\ UNCHANGED <<cmd, parsed, book_in, book, cfg, cargo_file, cargo_toml, repo,
                   commit, result, stdout, exit_code, applied>>

\* Faulty variant: the empty footer is wrapped and applied like any other
FooterCheck_no_skip ==
    /\ pc = "footer_check"
    /\ trace' = Append(trace, "footer_check")
    /\ footer' = footer_wrap(footer)
    /\ pc' = "apply"
    /\ UNCHANGED <<cmd, parsed, book_in, book, cfg, cargo_file, cargo_toml, repo,
                   commit, result, stdout, exit_code, log, applied>>

\* lines 142-146: an empty footer returns the book as it is
FooterCheck ==
    /\ pc = "footer_check"
    /\ trace' = Append(trace, "footer_check")
    /\ IF footer = <<>>
       THEN /\ log' = Append(log, "no_annotation")
            /\ result' = "Ok"
            /\ pc' = "serialize"
            /\ UNCHANGED footer
       ELSE /\ footer' = footer_wrap(footer)
            /\ pc' = "apply"
            /\ UNCHANGED <<log, result>>
    /\ UNCHANGED <<cmd, parsed, book_in, book, cfg, cargo_file, cargo_toml, repo,
                   commit, stdout, exit_code, applied>>

\* lines 148-150
Apply ==
    /\ pc = "apply"
    /\ book' = for_each_mut(book, footer)
    /\ applied' = applied + 1
    /\ trace' = Append(trace, "apply")
    /\ result' = "Ok"
    /\ pc' = "serialize"
    /\ UNCHANGED <<cmd, parsed, book_in, cfg, cargo_file, cargo_toml, repo,
                   commit, footer, stdout, exit_code, log>>

Next ==
    \/ Main
    \/ ParseInput
    \/ ResolveConfig
    \/ ReadManifest
    \/ ParseManifest
    \/ GitRev
    \/ FooterName
    \/ FooterCommit
    \/ FooterVersion
    \/ FooterCheck
    \/ Apply
    \/ Serialize
    \/ MainExit

Spec == Init /\ [][Next]_vars

---------------------------------------------------------------------------
(* The applicator on its own: a book, a composed footer, and repeated     *)
(* passes of line 148 over the same book with the same footer.            *)

Compose(c, ct, rev) ==
    footer_version(footer_commit(footer_name(<<>>, c, ct), c, rev), c, ct)

AllFlags ==
    [UnsetConfig EXCEPT !.st = "Ok", !.package_name = TRUE,
                        !.package_version = TRUE, !.git_commit = TRUE]

\* The footers a run can compose from the manifests and revisions above
Footers ==
    {footer_wrap(f) :
        f \in {Compose(AllFlags, FromStr(t), determine_git_rev(r, n)) :
                  t \in ManifestTexts, r \in RepoStates, n \in 0..MaxCommitChars}
              \ {<<>>}}

InitApply ==
    /\ pc = "apply"
    /\ cmd = "None"
    /\ parsed = "Ok"
    /\ book_in \in Books
    /\ book = book_in
    /\ cfg = AllFlags
    /\ cargo_file = [st |-> "unset", text |-> InvalidText]
    /\ cargo_toml = [st |-> "unset", package |-> NoTable, workspace |-> NoTable]
    /\ repo = UnsetRepo
    /\ commit = None
    /\ footer \in Footers
    /\ result = "unset"
    /\ stdout = "empty"
    /\ exit_code = -1
    /\ log = <<>>
    /\ trace = <<>>
    /\ applied = 0

ApplyAgain ==
    /\ pc = "apply"
    /\ applied < MaxApply
    /\ book' = for_each_mut(book, footer)
    /\ applied' = applied + 1
    /\ UNCHANGED <<pc, cmd, parsed, book_in, cfg, cargo_file, cargo_toml, repo,
                   commit, footer, result, stdout, exit_code, log, trace>>

NextApply == ApplyAgain

SpecApply == InitApply /\ [][NextApply]_vars

---------------------------------------------------------------------------
(* Vocabulary of the properties *)

Range(q) == {q[i] : i \in 1..Len(q)}
Min(a, b) == IF a < b THEN a ELSE b
IsPrefix(a, b) == Len(a) <= Len(b) /\ SubSeq(b, 1, Len(a)) = a

\* The nodes of a tree in document order, each with its depth
RECURSIVE Flatten(_, _)
Flatten(items, depth) ==
    IF items = <<>> THEN <<>>
    ELSE <<[kind |-> Head(items).kind, content |-> Head(items).content, depth |-> depth]>>
         \o Flatten(Head(items).sub_items, depth + 1)
         \o Flatten(Tail(items), depth)

NodesIn == Flatten(book_in, 0)
NodesOut == Flatten(book, 0)
HasChapter(nodes) == \E i \in 1..Len(nodes) : nodes[i].kind = "Chapter"

\* Fragments joined with one space between consecutive ones
RECURSIVE Join(_)
Join(frags) ==
    IF frags = <<>> THEN <<>>
    ELSE IF Len(frags) = 1 THEN frags[1]
    ELSE frags[1] \o Str_space \o Join(Tail(frags))

NameFact == CargoToml_name(cargo_toml)
VersionFact == CargoToml_version(cargo_toml)

\* The fragments of the enabled and available facts: name, '@'+revision, 'v'+version
Fragments ==
    (IF cfg.package_name /\ NameFact.some THEN <<NameFact.val>> ELSE <<>>)
    \o (IF cfg.git_commit /\ commit.some THEN <<Str_at \o commit.val>> ELSE <<>>)
    \o (IF cfg.package_version /\ VersionFact.some THEN <<Str_v \o VersionFact.val>> ELSE <<>>)

NonEmpty(frag) == frag # <<>>
Wrapped(f) == IF f = <<>> THEN <<>> ELSE Str_footer_open \o f \o Str_footer_close

Composed == "footer_version" \in Range(trace)
Checked == "footer_check" \in Range(trace)
Returned == pc \in {"serialize", "main_ok", "main_err", "exited"} /\ result # "unset"

\* Every chapter of the book is its input content followed by n copies of f,
\* every other node and the shape of the tree are those of the input
RECURSIVE Copies(_, _)
Copies(f, n) == IF n = 0 THEN <<>> ELSE f \o Copies(f, n - 1)

AnnotatedWith(f, n) ==
    /\ Len(NodesOut) = Len(NodesIn)
    /\ \A i \in 1..Len(NodesIn) :
          /\ NodesOut[i].kind = NodesIn[i].kind
          /\ NodesOut[i].depth = NodesIn[i].depth
          /\ NodesOut[i].content =
                IF NodesIn[i].kind = "Chapter"
                THEN NodesIn[i].content \o Copies(f, n)
                ELSE NodesIn[i].content

---------------------------------------------------------------------------
(* Properties *)

\* C1 as stated: once the three composition steps ran, the footer is the
\* fragments of the enabled and available facts, in the order name,
\* '@'+revision, 'v'+version, joined by single spaces, and after the check
\* that string wrapped in <footer>...</footer> when it is not empty.
C1_AsStated ==
    /\ (Composed /\ ~Checked) => footer = Join(Fragments)
    /\ Checked => footer = Wrapped(Join(Fragments))

\* C1 amended: the same with the separator placed only between non-empty
\* fragments: a name that is available but is the empty string contributes
\* neither text nor a separator.
C1_Footer ==
    /\ (Composed /\ ~Checked) => footer = Join(SelectSeq(Fragments, NonEmpty))
    /\ Checked => footer = Wrapped(Join(SelectSeq(Fragments, NonEmpty)))

\* C1 witness: name disabled, revision and version enabled and available,
\* and the footer is <footer>@<rev> v<version></footer>
C1_Witness ==
    /\ pc = "apply"
    /\ ~cfg.package_name /\ cfg.git_commit /\ cfg.package_version
    /\ NameFact.some /\ commit.some /\ commit.val # <<>> /\ VersionFact.some
    /\ footer = Str_footer_open \o Str_at \o commit.val \o Str_space
                   \o Str_v \o VersionFact.val \o Str_footer_close

\* C2: when the composed footer is empty (as it is when all three flags are
\* enabled and no fact is available), the run returns Ok with the book
\* identical to the input and the applicator never ran.
C2_SkipLeavesBook ==
    /\ (Checked /\ Join(SelectSeq(Fragments, NonEmpty)) = <<>>) =>
          /\ result = "Ok"
          /\ book = book_in
          /\ applied = 0
          /\ footer = <<>>
          /\ pc # "apply"
    /\ (Checked /\ ~NameFact.some /\ ~VersionFact.some /\ ~commit.some) =>
          book = book_in /\ result = "Ok"

\* C2 witness: all flags enabled, no fact available, a book with chapters
\* written out unchanged
C2_Witness ==
    /\ pc = "exited" /\ stdout = "book"
    /\ cfg.package_name /\ cfg.git_commit /\ cfg.package_version
    /\ ~NameFact.some /\ ~VersionFact.some /\ ~commit.some
    /\ HasChapter(NodesIn)
    /\ book = book_in

\* C3: after a non-empty footer was applied, every chapter at any depth is
\* its prior content followed by the footer, every other node is unchanged,
\* and the nodes of the tree and their order are the same.
C3_Applied ==
    applied = 1 =>
        /\ footer # <<>>
        /\ AnnotatedWith(footer, 1)

\* C3 witness: a book with a nested chapter and a non-chapter node was
\* annotated
C3_Witness ==
    /\ applied = 1 /\ pc = "serialize"
    /\ \E i \in 1..Len(NodesIn) : NodesIn[i].kind = "Chapter" /\ NodesIn[i].depth > 0
    /\ \E i \in 1..Len(NodesIn) : NodesIn[i].kind # "Chapter"
    /\ book # book_in

\* C4: for a HEAD that resolves to a commit, the revision is the prefix of
\* the identifier of length min(L, len(id)); for L >= len(id) it is the
\* identifier itself.
C4_Truncation ==
    repo.at = "commit" =>
        /\ commit.some
        /\ Len(commit.val) = Min(cfg.commit_characters, Len(repo.id))
        /\ \A i \in 1..Len(commit.val) : commit.val[i] = repo.id[i]
        /\ cfg.commit_characters >= Len(repo.id) => commit.val = repo.id

\* C4 witness: a truncation length strictly between 0 and the identifier's
\* length
C4_Witness ==
    /\ repo.at = "commit"
    /\ 0 < cfg.commit_characters /\ cfg.commit_characters < Len(repo.id)
    /\ Len(commit.val) = cfg.commit_characters

\* C5: name and version come from the package table when it is present,
\* else from the workspace table, else they are absent; and the name the
\* footer starts with is that name.
C5_PackageFirst ==
    cargo_toml.st = "Ok" =>
        /\ cargo_toml.package.some =>
              /\ NameFact = Some(cargo_toml.package.name)
              /\ VersionFact = Some(cargo_toml.package.version)
        /\ (~cargo_toml.package.some /\ cargo_toml.workspace.some) =>
              /\ NameFact = Some(cargo_toml.workspace.name)
              /\ VersionFact = Some(cargo_toml.workspace.version)
        /\ (~cargo_toml.package.some /\ ~cargo_toml.workspace.some) =>
              NameFact = None /\ VersionFact = None
        /\ (pc = "footer_commit" /\ cfg.package_name) =>
              footer = IF cargo_toml.package.some THEN cargo_toml.package.name
                       ELSE IF cargo_toml.workspace.some THEN cargo_toml.workspace.name
                       ELSE <<>>

\* C5 witness: both tables present and the footer starts with the package's
\* name
C5_Witness ==
    /\ pc = "footer_commit" /\ cfg.package_name
    /\ cargo_toml.package.some /\ cargo_toml.workspace.some
    /\ cargo_toml.package.name # cargo_toml.workspace.name
    /\ footer = cargo_toml.package.name /\ footer # <<>>

\* C6: a second pass with the same footer leaves every chapter as its
\* original content followed by two copies of the footer, which differs
\* from what one pass leaves.
C6_NoDedup ==
    /\ applied = 1 => AnnotatedWith(footer, 1)
    /\ applied = 2 =>
          /\ AnnotatedWith(footer, 2)
          /\ HasChapter(NodesIn) => ~AnnotatedWith(footer, 1)

\* C6 witness: two passes over a book with chapters
C6_Witness ==
    /\ applied = 2
    /\ HasChapter(NodesIn)
    /\ \E i \in 1..Len(NodesOut) :
          NodesOut[i].kind = "Chapter"
          /\ NodesOut[i].content = NodesIn[i].content \o footer \o footer

\* C7: with the input, the configuration and the manifest in order, nothing
\* else makes the run fail: whatever the repository and whichever facts are
\* missing, the run returns Ok with the book annotated by the remaining
\* facts, or unchanged when there are none, and the process exits 0 when
\* the book was written.
Recoverable ==
    parsed = "Ok" /\ cfg.st = "Ok" /\ cargo_file.st = "Ok" /\ cargo_toml.st = "Ok"

C7_RecoverableOk ==
    /\ Recoverable => result # "Err"
    /\ (Recoverable /\ pc \in {"serialize", "main_ok", "main_err", "exited"}) =>
          /\ result = "Ok"
          /\ repo.at # "unset"
          /\ IF Join(SelectSeq(Fragments, NonEmpty)) = <<>>
             THEN book = book_in
             ELSE AnnotatedWith(Wrapped(Join(SelectSeq(Fragments, NonEmpty))), 1)
    /\ (Recoverable /\ pc = "main_err") => stdout # "book"
    /\ (Recoverable /\ pc = "exited") => (exit_code = 0 <=> stdout = "book")

\* C7 witness: HEAD does not resolve, the revision is enabled, and the run
\* ends with status 0 and a book annotated with name and version
C7_Witness ==
    /\ pc = "exited" /\ exit_code = 0
    /\ repo.at = "no_head" /\ cfg.git_commit
    /\ "commit_missing" \in Range(log)
    /\ applied = 1 /\ HasChapter(NodesIn)

\* C8: the primary mode exits 1 exactly when the input could not be parsed,
\* a configuration value had the wrong shape, the manifest could not be
\* read or parsed, or the book could not be written; then the run's error
\* is logged and no whole book is on the output. Otherwise it exits 0.
Fatal ==
    \/ parsed = "Err"
    \/ cfg.st = "Err"
    \/ cargo_file.st = "Err"
    \/ cargo_toml.st = "Err"
    \/ (result = "Ok" /\ stdout # "book" /\ pc \in {"main_err", "exited"})

C8_FatalExit ==
    /\ (parsed = "Err" \/ cfg.st = "Err" \/ cargo_file.st = "Err" \/ cargo_toml.st = "Err") =>
          /\ result # "Ok"
          /\ stdout = "empty"
          /\ applied = 0
          /\ pc \in {"main_err", "exited"}
    /\ (pc = "exited" /\ cmd = "None") =>
          /\ exit_code \in {0, 1}
          /\ exit_code = 1 <=> Fatal
          /\ exit_code = 1 => (stdout # "book" /\ "main_failed" \in Range(log))
          /\ exit_code = 0 => (stdout = "book" /\ result = "Ok")

\* C8 witness: an unparsable manifest ended the process with status 1
C8_Witness ==
    /\ pc = "exited" /\ cmd = "None"
    /\ cargo_toml.st = "Err"
    /\ exit_code = 1 /\ stdout = "empty"

\* C9 as stated: with commit_characters = 0 and a revision that resolves,
\* the revision adds nothing to the footer, so a run in which no name and
\* no version is enabled and available composes the empty string and skips
\* the annotation.
C9_AsStated ==
    (/\ Checked
     /\ cfg.commit_characters = 0 /\ cfg.git_commit /\ commit.some
     /\ ~(cfg.package_name /\ NameFact.some)
     /\ ~(cfg.package_version /\ VersionFact.some)) =>
        /\ footer = <<>>
        /\ book = book_in

\* C10: the statements of a run execute in the order configuration,
\* manifest read, manifest parse, revision, composition, application, each
\* only after the one before succeeded; a wrong-shaped configuration value
\* ends the run before the manifest is read or the repository opened, and
\* the book is not touched before the footer is composed and checked.
RunOrder ==
    <<"config", "read_manifest", "parse_manifest", "git_rev", "footer_name",
      "footer_commit", "footer_version", "footer_check", "apply">>

C10_StepOrder ==
    /\ IsPrefix(trace, RunOrder)
    /\ cfg.st = "Err" =>
          /\ trace = <<"config">>
          /\ cargo_file.st = "unset" /\ cargo_toml.st = "unset" /\ repo.at = "unset"
    /\ cargo_file.st # "unset" => cfg.st = "Ok"
    /\ cargo_toml.st # "unset" => cargo_file.st = "Ok"
    /\ repo.at # "unset" => cargo_toml.st = "Ok"
    /\ "footer_name" \in Range(trace) => repo.at # "unset"
    /\ (book # book_in \/ applied > 0) =>
          /\ IsPrefix(SubSeq(RunOrder, 1, 8), trace)
          /\ footer = Wrapped(Join(SelectSeq(Fragments, NonEmpty)))

\* C10 witness: a wrong-shaped configuration value ended the run with the
\* manifest unread and the repository unopened
C10_Witness ==
    /\ cfg.st = "Err" /\ pc = "exited" /\ exit_code = 1
    /\ trace = <<"config">>
    /\ cargo_file.st = "unset" /\ repo.at = "unset"

============================================================================
